---------------------------- MODULE Spec2Model ----------------------------
(***************************************************************************)
(* A model of cognite-utils: the capability-key canonicalizer, the         *)
(* capability universe and matrix builders (utils/cognite_groups_export),  *)
(* the removal policy (utils/remove_capabilities) and the backup archive   *)
(* (utils/group_backup_restore).                                           *)
(*                                                                         *)
(* Python strings are TLA+ strings; Python lists are sequences; None is    *)
(* the record None.  A pure function is an operator; the variables op,     *)
(* arg and ret hold the call being made, its argument and what it returns;  *)
(* op is "idle" between calls.                                             *)
(***************************************************************************)
EXTENDS Integers, Sequences, FiniteSets, TLC

VARIABLES op, arg, ret, archive, clock

vars == <<op, arg, ret, archive, clock>>

-----------------------------------------------------------------------------
(* Python str primitives *)

\* The printable characters the model uses, in code-point order.
CodePoints == " '(),-.0123456789:<=>ABCDEFGHIJKLMNOPQRSTUVWXYZ_abcdefghijklmnopqrstuvwxyz"

UpperCase == "ABCDEFGHIJKLMNOPQRSTUVWXYZ"

LowerCase == "abcdefghijklmnopqrstuvwxyz"

Digits == "0123456789"

Chr(s, i) == SubSeq(s, i, i)

CharSet == {Chr(CodePoints, i) : i \in 1..Len(CodePoints)}

UpperSet == {Chr(UpperCase, i) : i \in 1..Len(UpperCase)}

\* ord(c), up to an order-preserving renumbering
Ord == [c \in CharSet |-> CHOOSE i \in 1..Len(CodePoints) : Chr(CodePoints, i) = c]

LowerChar == [c \in CharSet |->
                IF c \in UpperSet
                THEN Chr(LowerCase, CHOOSE i \in 1..Len(UpperCase) : Chr(UpperCase, i) = c)
                ELSE c]

Min(S) == CHOOSE x \in S : \A y \in S : x <= y

\* a < b on str: code-point lexicographic order
StrLess(a, b) ==
    LET n == IF Len(a) < Len(b) THEN Len(a) ELSE Len(b)
        diff == {i \in 1..n : Chr(a, i) # Chr(b, i)}
    IN  IF diff = {} THEN Len(a) < Len(b)
        ELSE Ord[Chr(a, Min(diff))] < Ord[Chr(b, Min(diff))]

RECURSIVE Lower(_)
\* str.lower()
Lower(s) == IF s = "" THEN "" ELSE LowerChar[Chr(s, 1)] \o Lower(SubSeq(s, 2, Len(s)))

\* str.startswith / str.endswith
StartsWith(s, p) == Len(p) <= Len(s) /\ SubSeq(s, 1, Len(p)) = p

EndsWith(s, p) == Len(p) <= Len(s) /\ SubSeq(s, Len(s) - Len(p) + 1, Len(s)) = p

\* the positions at which sub occurs in s
Occurrences(s, sub) == {i \in 1..(Len(s) - Len(sub) + 1) : SubSeq(s, i, i + Len(sub) - 1) = sub}

\* sub in s
Contains(s, sub) == Occurrences(s, sub) # {}

\* s.split(sep)[0]
SplitFirst(s, sep) ==
    IF Contains(s, sep) THEN SubSeq(s, 1, Min(Occurrences(s, sep)) - 1) ELSE s

RECURSIVE SplitLast(_, _)
\* s.split(sep)[-1]: split scans left to right over non-overlapping occurrences
SplitLast(s, sep) ==
    IF Contains(s, sep)
    THEN SplitLast(SubSeq(s, Min(Occurrences(s, sep)) + Len(sep), Len(s)), sep)
    ELSE s

RECURSIVE Strip(_)
\* str.strip()
Strip(s) ==
    IF s = "" THEN ""
    ELSE IF Chr(s, 1) = " " THEN Strip(SubSeq(s, 2, Len(s)))
    ELSE IF Chr(s, Len(s)) = " " THEN Strip(SubSeq(s, 1, Len(s) - 1))
    ELSE s

RECURSIVE IntToStr(_)
\* str(n) for an int n >= 0
IntToStr(n) ==
    IF n < 10 THEN Chr(Digits, n + 1)
    ELSE IntToStr(n \div 10) \o Chr(Digits, (n % 10) + 1)

RECURSIVE Join(_, _)
\* sep.join(parts)
Join(parts, sep) ==
    IF parts = <<>> THEN ""
    ELSE IF Len(parts) = 1 THEN parts[1]
    ELSE parts[1] \o sep \o Join(Tail(parts), sep)

RECURSIVE SortedStrs(_)
\* sorted(S) for a set S of str
SortedStrs(S) ==
    IF S = {} THEN <<>>
    ELSE LET m == CHOOSE x \in S : \A y \in S : ~StrLess(y, x)
         IN  <<m>> \o SortedStrs(S \ {m})

ToSet(seq) == {seq[i] : i \in 1..Len(seq)}

\* list reversed, as sorted(..., reverse=True) of distinct entries gives it
Reverse(seq) == [i \in 1..Len(seq) |-> seq[Len(seq) + 1 - i]]

None == [tag |-> "None"]

-----------------------------------------------------------------------------
(* utils/cognite_groups_export.py: the key canonicalizer *)

RECURSIVE SnakeBreaks(_, _)
\* re.sub(r"(?<!^)(?=[A-Z])", "_", s): an underscore before every capital
\* letter that is not the first character; i is the position being copied
SnakeBreaks(s, i) ==
    IF i > Len(s) THEN ""
    ELSE (IF i > 1 /\ Chr(s, i) \in UpperSet THEN "_" ELSE "")
         \o Chr(s, i) \o SnakeBreaks(s, i + 1)

extract_resource_name(capability) ==
    LET type_name == capability.type_name
        resource == IF EndsWith(type_name, "Acl")
                    THEN SubSeq(type_name, 1, Len(type_name) - 3)
                    ELSE type_name
    IN  Lower(SnakeBreaks(resource, 1))

_first_token(s) == Lower(Strip(SplitFirst(SplitFirst(SplitFirst(s, ":"), "'"), ">")))

\* an action is [has_name, name, has_value, value, text]: text is str(action)
extract_action_name(action) ==
    IF action.has_name THEN Lower(action.name)
    ELSE IF action.has_value THEN Lower(action.value)
    ELSE IF Contains(action.text, "Action.")
         THEN _first_token(SplitLast(action.text, "Action."))
    ELSE IF Contains(action.text, ".")
         THEN _first_token(SplitLast(action.text, "."))
    ELSE _first_token(action.text)

\* a scope is None or [type_name, has_all, all, attrs, text]: attrs maps each
\* probed attribute to [kind |-> "absent"], [kind |-> "int", v |-> n],
\* [kind |-> "str", v |-> s] or [kind |-> "list", v |-> <<n, ...>>]
is_all_scope(scope) ==
    IF scope = None THEN TRUE
    ELSE IF scope.type_name = "AllScope" THEN TRUE
    ELSE IF scope.has_all THEN TRUE
    ELSE FALSE

ScopeAttrs == <<"data_set_id", "data_set_ids", "project", "project_id", "project_ids">>

\* bool(value) of an attribute value
Truthy(value) ==
    CASE value.kind = "absent" -> FALSE
      [] value.kind = "int" -> value.v # 0
      [] value.kind = "str" -> value.v # ""
      [] value.kind = "list" -> value.v # <<>>

\* the part one attribute appends to scope_parts (a list of 0 or 1 parts)
ScopePart(scope, attr) ==
    LET value == scope.attrs[attr]
    IN  IF value.kind # "absent" /\ Truthy(value)
        THEN IF value.kind = "list"
             THEN <<attr \o "=" \o Join([i \in 1..Len(value.v) |-> IntToStr(value.v[i])], ",")>>
             ELSE IF value.kind = "int" THEN <<attr \o "=" \o IntToStr(value.v)>>
             ELSE <<attr \o "=" \o value.v>>
        ELSE <<>>

RECURSIVE ScopeParts(_, _)
ScopeParts(scope, i) ==
    IF i > Len(ScopeAttrs) THEN <<>>
    ELSE ScopePart(scope, ScopeAttrs[i]) \o ScopeParts(scope, i + 1)

\* returns None or [tag |-> "str", v |-> the scope string]
extract_scope_string(scope) ==
    IF is_all_scope(scope) THEN None
    ELSE LET found == ScopeParts(scope, 1)
             scope_str == IF StartsWith(scope.text, "Scope(") /\ EndsWith(scope.text, ")")
                          THEN SubSeq(scope.text, 7, Len(scope.text) - 1)
                          ELSE scope.text
             scope_parts == IF found = <<>> THEN <<scope_str>> ELSE found
         IN  [tag |-> "str", v |-> Join(scope_parts, ":")]

\* the names of the actions whose name is not empty, in the grant's order
RECURSIVE ActionNames(_)
ActionNames(actions) ==
    IF actions = <<>> THEN <<>>
    ELSE LET action_name == extract_action_name(Head(actions))
         IN  (IF action_name # "" THEN <<action_name>> ELSE <<>>) \o ActionNames(Tail(actions))

\* one key of a grant: resource:action, with :scope when the scope gives one
CapKey(capability, resource, action) ==
    LET cap_key == resource \o ":" \o action
    IN  IF capability.scope # None
        THEN LET scope_str == extract_scope_string(capability.scope)
             IN  IF scope_str # None /\ scope_str.v # ""
                 THEN cap_key \o ":" \o scope_str.v
                 ELSE cap_key
        ELSE cap_key

\* what extract_capability_key returns is None, [tag |-> "str", v |-> key]
\* or [tag |-> "list", v |-> <<key, ...>>]
KeysResult(capability_keys) ==
    IF Len(capability_keys) > 1
    THEN [tag |-> "list", v |-> capability_keys]
    ELSE [tag |-> "str", v |-> capability_keys[1]]

\* a slip: the action names keep the grant's order and its duplicates
extract_capability_key_unsorted(capability) ==
    IF capability.actions = <<>> THEN None
    ELSE LET resource == extract_resource_name(capability)
             action_names == ActionNames(capability.actions)
         IN  IF action_names = <<>> THEN None
             ELSE KeysResult([i \in 1..Len(action_names) |->
                                 CapKey(capability, resource, action_names[i])])

extract_capability_key(capability) ==
    IF capability.actions = <<>> THEN None
    ELSE LET resource == extract_resource_name(capability)
             names == ActionNames(capability.actions)
         IN  IF names = <<>> THEN None
             ELSE LET action_names == SortedStrs(ToSet(names))
                  IN  KeysResult([i \in 1..Len(action_names) |->
                                     CapKey(capability, resource, action_names[i])])

\* the keys a call of extract_capability_key returned, as a list
RetKeys(r) == IF r = None THEN <<>> ELSE IF r.tag = "list" THEN r.v ELSE <<r.v>>

RetKeysOf(cap) == RetKeys(extract_capability_key(cap))

\* list(_iter_capability_keys(cap))
_iter_capability_keys(cap) ==
    LET cap_keys == extract_capability_key(cap)
    IN  IF cap_keys = None THEN <<>>
        ELSE IF cap_keys.tag = "list" THEN cap_keys.v
        ELSE <<cap_keys.v>>


\* a group is [id, name, source_id, capabilities]; groups_by_customer is a
\* dict in insertion order: a sequence of [customer, groups], where groups is
\* None or [tag |-> "list", v |-> <<group, ...>>]
RECURSIVE GroupKeys(_)
\* the keys of a list of grants, flattened, in order
GroupKeys(capabilities) ==
    IF capabilities = <<>> THEN <<>>
    ELSE _iter_capability_keys(Head(capabilities)) \o GroupKeys(Tail(capabilities))

RECURSIVE GroupsKeys(_)
GroupsKeys(groups) ==
    IF groups = <<>> THEN <<>>
    ELSE GroupKeys(Head(groups).capabilities) \o GroupsKeys(Tail(groups))

RECURSIVE CustomersKeys(_)
\* every key added to all_capabilities, in the order the loops add them
CustomersKeys(groups_by_customer) ==
    IF groups_by_customer = <<>> THEN <<>>
    ELSE (IF Head(groups_by_customer).groups = None THEN <<>>
          ELSE GroupsKeys(Head(groups_by_customer).groups.v))
         \o CustomersKeys(Tail(groups_by_customer))

RECURSIVE FirstSeen(_, _)
\* seq without the entries already in seen or repeated
FirstSeen(seq, seen) ==
    IF seq = <<>> THEN <<>>
    ELSE IF Head(seq) \in seen THEN FirstSeen(Tail(seq), seen)
    ELSE <<Head(seq)>> \o FirstSeen(Tail(seq), seen \cup {Head(seq)})

\* a slip: list(all_capabilities) in first-seen order instead of sorted(...)
collect_all_capabilities_unsorted(groups_by_customer) ==
    FirstSeen(CustomersKeys(groups_by_customer), {})

collect_all_capabilities(groups_by_customer) ==
    LET all_capabilities == ToSet(CustomersKeys(groups_by_customer))
    IN  SortedStrs(all_capabilities)

get_group_capability_keys(group) == ToSet(GroupKeys(group.capabilities))

\* a dict in insertion order is [columns |-> <<key, ...>>, cells |-> [key |-> value]]
build_group_row(group, all_capabilities) ==
    LET group_caps == get_group_capability_keys(group)
        identity == [c \in {"Group Name", "Group ID", "Source ID"} |->
                        CASE c = "Group Name" -> [tag |-> "str", v |-> group.name]
                          [] c = "Group ID" -> [tag |-> "int", v |-> group.id]
                          [] c = "Source ID" -> group.source_id]
    IN  [columns |-> FirstSeen(<<"Group Name", "Group ID", "Source ID">> \o all_capabilities, {}),
         cells |-> [c \in {"Group Name", "Group ID", "Source ID"} \cup ToSet(all_capabilities) |->
                       IF c \in ToSet(all_capabilities)
                       THEN [tag |-> "str", v |-> IF c \in group_caps THEN "Y" ELSE "N"]
                       ELSE identity[c]]]

RECURSIVE RowsColumns(_)
RowsColumns(rows) ==
    IF rows = <<>> THEN <<>> ELSE Head(rows).columns \o RowsColumns(Tail(rows))

\* pandas.DataFrame(rows) for a list of dicts: the columns are the keys of
\* the rows in first-seen order, so an empty list gives a frame with no column
DataFrame(rows) ==
    [columns |-> FirstSeen(RowsColumns(rows), {}),
     rows |-> [i \in 1..Len(rows) |-> rows[i].cells]]

\* df[cols]: KeyError when a requested column is not a column of df
SelectColumns(df, cols) ==
    IF ToSet(cols) \subseteq ToSet(df.columns)
    THEN [tag |-> "DataFrame", columns |-> cols, rows |-> df.rows]
    ELSE [tag |-> "raise", exc |-> "KeyError"]

build_customer_dataframe(groups, all_capabilities) ==
    LET group_cols == <<"Group Name", "Group ID", "Source ID">>
        rows == [i \in 1..Len(groups) |-> build_group_row(groups[i], all_capabilities)]
        df == DataFrame(rows)
        cols == group_cols \o all_capabilities
    IN  SelectColumns(df, cols)

-----------------------------------------------------------------------------
(* The inputs of the canonicalizer and of the builders *)

MaxActions == 3

MaxGroups == 2

Seqs(S, n) == UNION {[1..k -> S] : k \in 0..n}

EnumAction(name, value) ==
    [has_name |-> TRUE, name |-> name, has_value |-> TRUE, value |-> value,
     text |-> "Action." \o name]

\* Action members, an object that has only a value, and a plain repr string
ActRead == EnumAction("Read", "READ")

ActWrite == EnumAction("Write", "WRITE")

ActValueRead == [has_name |-> FALSE, name |-> "", has_value |-> TRUE, value |-> "READ", text |-> ""]

ActTextList == [has_name |-> FALSE, name |-> "", has_value |-> FALSE, value |-> "",
                text |-> "<Action.List: 'LIST'>"]

ActionPool == {ActRead, ActWrite, ActValueRead, ActTextList}

Absent == [kind |-> "absent"]

NoAttrs == [a \in ToSet(ScopeAttrs) |-> Absent]

AllScope == [type_name |-> "AllScope", has_all |-> FALSE, all |-> FALSE, attrs |-> NoAttrs,
             text |-> "AllScope()"]

DataSetScope(ids) ==
    [type_name |-> "DataSetScope", has_all |-> FALSE, all |-> FALSE,
     attrs |-> [NoAttrs EXCEPT !["data_set_ids"] = [kind |-> "list", v |-> ids]],
     text |-> "DataSetScope()"]

\* a scope object with one data set id and a project, and an `all` that is falsy
MixedScope ==
    [type_name |-> "Scope", has_all |-> TRUE, all |-> FALSE,
     attrs |-> [NoAttrs EXCEPT !["data_set_id"] = [kind |-> "int", v |-> 5],
                               !["project"] = [kind |-> "str", v |-> "p1"]],
     text |-> "Scope(mixed)"]

\* a scope with none of the probed attributes: its text is used
TableScope ==
    [type_name |-> "TableScope", has_all |-> FALSE, all |-> FALSE, attrs |-> NoAttrs,
     text |-> "Scope(tables)"]

ScopePool == {None, AllScope, DataSetScope(<<12, 5>>), MixedScope, TableScope}

TypeNames == {"TimeSeriesAcl", "AssetsAcl", "ThreeDAcl"}

Capability(type_name, actions, scope) ==
    [type_name |-> type_name, actions |-> actions, scope |-> scope]

Capabilities ==
    {Capability(t, a, s) : t \in TypeNames, a \in Seqs(ActionPool, MaxActions), s \in ScopePool}

Group(id, name, capabilities) ==
    [id |-> id, name |-> name, source_id |-> None, capabilities |-> capabilities]

GroupPool ==
    { Group(1, "G1", <<Capability("TimeSeriesAcl", <<ActRead>>, None)>>),
      Group(2, "G2", <<>>),
      Group(3, "G3", <<Capability("AssetsAcl", <<ActWrite, ActRead>>, DataSetScope(<<5>>)),
                       Capability("TimeSeriesAcl", <<ActValueRead>>, AllScope),
                       Capability("ThreeDAcl", <<>>, None)>>) }

GroupLists == Seqs(GroupPool, MaxGroups)

CustomerNames == {"alpha", "beta"}

CustomerGroups == {None} \cup {[tag |-> "list", v |-> g] : g \in GroupLists}

\* the dicts over one or two customers, in either insertion order, and the empty dict
GroupsByCustomer ==
    {<<>>}
    \cup {<<[customer |-> c, groups |-> g]>> : c \in CustomerNames, g \in CustomerGroups}
    \cup {gbc \in {<<[customer |-> c, groups |-> g], [customer |-> d, groups |-> h]>> :
                      c \in CustomerNames, d \in CustomerNames,
                      g \in CustomerGroups, h \in CustomerGroups} :
            gbc[1].customer # gbc[2].customer}

Universes ==
    { <<>>,
      <<"time_series:read">>,
      <<"assets:read:data_set_ids=5", "assets:write:data_set_ids=5", "time_series:read">>,
      <<"time_series:read", "events:read", "assets:read:data_set_ids=5">> }

-----------------------------------------------------------------------------
(* The canonicalizer and the builders, one call at a time *)

\* the archive directory: does it exist, and its files as [name, content]
NoArchive == [exists |-> FALSE, files |-> {}]

ClockStart == 8

Init ==
    /\ op = "idle"
    /\ arg = None
    /\ ret = None
    /\ archive = NoArchive
    /\ clock = ClockStart

ExtractCapabilityKey ==
    \E capability \in Capabilities :
        /\ op = "idle"
        /\ op' = "extract_capability_key"
        /\ arg' = capability
        /\ ret' = extract_capability_key(capability)
        /\ UNCHANGED <<archive, clock>>

CollectAllCapabilities ==
    \E groups_by_customer \in GroupsByCustomer :
        /\ op = "idle"
        /\ op' = "collect_all_capabilities"
        /\ arg' = groups_by_customer
        /\ ret' = collect_all_capabilities(groups_by_customer)
        /\ UNCHANGED <<archive, clock>>

BuildCustomerDataframe ==
    \E groups \in GroupLists, all_capabilities \in Universes :
        /\ op = "idle"
        /\ op' = "build_customer_dataframe"
        /\ arg' = [groups |-> groups, all_capabilities |-> all_capabilities]
        /\ ret' = build_customer_dataframe(groups, all_capabilities)
        /\ UNCHANGED <<archive, clock>>

\* the call returns to its caller
Return ==
    /\ op # "idle"
    /\ op' = "idle"
    /\ arg' = None
    /\ ret' = None
    /\ UNCHANGED <<archive, clock>>

Next ==
    \/ ExtractCapabilityKey
    \/ CollectAllCapabilities
    \/ BuildCustomerDataframe
    \/ Return

Spec == Init /\ [][Next]_vars

-----------------------------------------------------------------------------
(* Properties of the canonicalizer and the builders *)

\* the resource names the type names of TypeNames stand for
ExpectedResource ==
    [t \in TypeNames |->
        CASE t = "TimeSeriesAcl" -> "time_series"
          [] t = "AssetsAcl" -> "assets"
          [] t = "ThreeDAcl" -> "three_d"]

\* the action of the key resource:action or resource:action:scope
KeyAction(resource, key) == SplitFirst(SubSeq(key, Len(resource) + 2, Len(key)), ":")

UniverseOf(groups_by_customer) ==
    UNION {UNION {UNION {ToSet(RetKeys(extract_capability_key(cap))) :
                            cap \in ToSet(g.capabilities)} :
                     g \in ToSet(e.groups.v)} :
             e \in {x \in ToSet(groups_by_customer) : x.groups # None}}

ReverseGroups(entry) ==
    IF entry.groups = None THEN entry
    ELSE [entry EXCEPT !.groups.v = Reverse(entry.groups.v)]

\* C2: collect_all_capabilities returns exactly the keys of all grants of
\* all groups of all customers that are not None, strictly ascending, and
\* the same sequence whatever the customer order and the group order.
C2_UniverseSortedOrderFree ==
    (op = "collect_all_capabilities") =>
        /\ ToSet(ret) = UniverseOf(arg)
        /\ \A i, j \in 1..Len(ret) : i < j => StrLess(ret[i], ret[j])
        /\ collect_all_capabilities(Reverse(arg)) = ret
        /\ collect_all_capabilities([i \in 1..Len(arg) |-> ReverseGroups(arg[i])]) = ret

\* C2 witness: a None customer before a customer whose groups share a key
C2_Witness ==
    /\ op = "collect_all_capabilities"
    /\ Len(arg) = 2
    /\ arg[1].groups = None
    /\ arg[2].groups # None
    /\ Len(arg[2].groups.v) = 2
    /\ arg[2].groups.v[1].id = 1
    /\ arg[2].groups.v[2].id = 3
    /\ ret = <<"assets:read:data_set_ids=5", "assets:write:data_set_ids=5", "time_series:read">>

\* C3: for every sequence of groups, the empty one included, and every
\* universe, build_customer_dataframe returns a table with one row per group
\* in input order, the columns Group Name, Group ID, Source ID and then the
\* universe keys in universe order, and the cell of (group, key) is Y iff the
\* key is a key of one of the group's grants and N otherwise.
C3_OneRowPerGroup ==
    (op = "build_customer_dataframe") =>
        /\ ret.tag = "DataFrame"
        /\ ret.columns = <<"Group Name", "Group ID", "Source ID">> \o arg.all_capabilities
        /\ Len(ret.rows) = Len(arg.groups)
        /\ \A i \in 1..Len(arg.groups) :
              /\ ret.rows[i]["Group Name"].v = arg.groups[i].name
              /\ ret.rows[i]["Group ID"].v = arg.groups[i].id
              /\ \A key \in ToSet(arg.all_capabilities) :
                    ret.rows[i][key].v =
                        IF key \in UniverseOf(<<[groups |-> [v |-> <<arg.groups[i]>>]]>>)
                        THEN "Y" ELSE "N"

-----------------------------------------------------------------------------
(* utils/remove_capabilities.py: the removal policy *)

LEGACY_RESOURCE_NAMES ==
    <<"assets", "timeseries", "events", "files", "sequences", "raw", "data_sets",
      "spaces", "containers", "datapoints", "three_d", "three_d_models", "documents">>

\* an optional list is None or [tag |-> "list", v |-> <<...>>]
capability_keys_to_remove(legacy_resources, specific_keys, legacy_list) ==
    LET specific == IF specific_keys # None /\ specific_keys.v # <<>>
                    THEN {Strip(k) : k \in {x \in ToSet(specific_keys.v) : Strip(x) # ""}}
                    ELSE {}
        legacy == IF legacy_list # None /\ legacy_list.v # <<>>
                  THEN legacy_list.v
                  ELSE LEGACY_RESOURCE_NAMES
    IN  IF legacy_resources
        THEN specific \cup {Strip(Lower(res)) : res \in ToSet(legacy)}
        ELSE specific

\* a slip: every entry is a prefix of the keys it removes, without the ":"
should_remove_capability_key_bare_prefix(key, to_remove, legacy_resources) ==
    LET key_lower == Lower(key)
    IN  IF key_lower \in to_remove THEN TRUE
        ELSE IF legacy_resources
             THEN \E r \in to_remove : ~Contains(r, ":") /\ StartsWith(key_lower, r)
             ELSE FALSE

\* a slip: the legacy flag is not consulted
should_remove_capability_key_always_legacy(key, to_remove, legacy_resources) ==
    LET key_lower == Lower(key)
    IN  IF key_lower \in to_remove THEN TRUE
        ELSE \E r \in to_remove : ~Contains(r, ":") /\ StartsWith(key_lower, r \o ":")

should_remove_capability_key(key, to_remove, legacy_resources) ==
    LET key_lower == Lower(key)
    IN  IF key_lower \in to_remove THEN TRUE
        ELSE IF legacy_resources
             THEN \E r \in to_remove : ~Contains(r, ":") /\ StartsWith(key_lower, r \o ":")
             ELSE FALSE

\* the loop body's decision for one grant: keep it or not
KeepCapability(cap, to_remove, legacy_resources) ==
    LET keys == extract_capability_key(cap)
    IN  IF keys = None THEN TRUE
        ELSE LET key_list == IF keys.tag = "str" THEN <<keys.v>> ELSE keys.v
             IN  ~ \E i \in 1..Len(key_list) :
                      should_remove_capability_key(key_list[i], to_remove, legacy_resources)

RECURSIVE KeepLoop(_, _, _)
KeepLoop(capabilities, to_remove, legacy_resources) ==
    IF capabilities = <<>> THEN <<>>
    ELSE (IF KeepCapability(Head(capabilities), to_remove, legacy_resources)
          THEN <<Head(capabilities)>> ELSE <<>>)
         \o KeepLoop(Tail(capabilities), to_remove, legacy_resources)

RECURSIVE DropPartialLoop(_, _, _)
\* a slip: a grant is dropped only when every one of its keys matches
DropPartialLoop(capabilities, to_remove, legacy_resources) ==
    IF capabilities = <<>> THEN <<>>
    ELSE LET keys == RetKeysOf(Head(capabilities))
         IN  (IF keys = <<>> \/ \E i \in 1..Len(keys) :
                    ~should_remove_capability_key(keys[i], to_remove, legacy_resources)
              THEN <<Head(capabilities)>> ELSE <<>>)
             \o DropPartialLoop(Tail(capabilities), to_remove, legacy_resources)

filter_capabilities_for_removal_partial(group, to_remove, legacy_resources) ==
    IF group.capabilities = <<>> THEN <<>>
    ELSE DropPartialLoop(group.capabilities, to_remove, legacy_resources)

\* extract_key_fn is extract_capability_key
filter_capabilities_for_removal(group, to_remove, legacy_resources) ==
    IF group.capabilities = <<>> THEN <<>>
    ELSE KeepLoop(group.capabilities, to_remove, legacy_resources)

-----------------------------------------------------------------------------
(* The removal policy, one call at a time *)

OptList(v) == [tag |-> "list", v |-> v]

SpecificKeyInputs ==
    { None, OptList(<<>>), OptList(<<"assets:write">>), OptList(<<" Assets:Read ", " ">>),
      OptList(<<"time_series:read", "assets">>) }

LegacyListInputs ==
    { None, OptList(<<>>), OptList(<<"assets">>), OptList(<<"Asset", " events ">>) }

KeyInputs ==
    { "assets:read", "assets:write:dataset=5", "asset_mappings:read", "Assets:Write",
      "time_series:read", "timeseries:read", "events:read", "assets" }

RemovalGroups ==
    { Group(10, "mixed", <<Capability("TimeSeriesAcl", <<ActRead>>, None),
                           Capability("AssetsAcl", <<ActRead>>, None),
                           Capability("ThreeDAcl", <<>>, None),
                           Capability("AssetsAcl", <<ActWrite, ActRead>>, None)>>),
      Group(11, "empty", <<>>),
      Group(12, "scoped", <<Capability("AssetsAcl", <<ActWrite>>, DataSetScope(<<5>>)),
                            Capability("TimeSeriesAcl", <<ActWrite, ActRead>>, AllScope),
                            Capability("ThreeDAcl", <<ActRead>>, None)>>) }

CapabilityKeysToRemove ==
    \E legacy_resources \in BOOLEAN, specific_keys \in SpecificKeyInputs,
       legacy_list \in LegacyListInputs :
        /\ op = "idle"
        /\ op' = "capability_keys_to_remove"
        /\ arg' = [legacy_resources |-> legacy_resources, specific_keys |-> specific_keys,
                   legacy_list |-> legacy_list]
        /\ ret' = capability_keys_to_remove(legacy_resources, specific_keys, legacy_list)
        /\ UNCHANGED <<archive, clock>>

\* the removal set is one that capability_keys_to_remove built
ShouldRemoveCapabilityKey ==
    \E key \in KeyInputs, legacy_resources \in BOOLEAN, built_legacy \in BOOLEAN,
       specific_keys \in SpecificKeyInputs, legacy_list \in LegacyListInputs :
        LET to_remove == capability_keys_to_remove(built_legacy, specific_keys, legacy_list)
        IN  /\ op = "idle"
            /\ op' = "should_remove_capability_key"
            /\ arg' = [key |-> key, to_remove |-> to_remove,
                       legacy_resources |-> legacy_resources]
            /\ ret' = should_remove_capability_key(key, to_remove, legacy_resources)
            /\ UNCHANGED <<archive, clock>>

FilterCapabilitiesForRemoval ==
    \E group \in RemovalGroups, legacy_resources \in BOOLEAN, built_legacy \in BOOLEAN,
       specific_keys \in SpecificKeyInputs, legacy_list \in LegacyListInputs :
        LET to_remove == capability_keys_to_remove(built_legacy, specific_keys, legacy_list)
        IN  /\ op = "idle"
            /\ op' = "filter_capabilities_for_removal"
            /\ arg' = [group |-> group, to_remove |-> to_remove,
                       legacy_resources |-> legacy_resources]
            /\ ret' = filter_capabilities_for_removal(group, to_remove, legacy_resources)
            /\ UNCHANGED <<archive, clock>>

NextRemoval ==
    \/ CapabilityKeysToRemove
    \/ ShouldRemoveCapabilityKey
    \/ FilterCapabilitiesForRemoval
    \/ Return

SpecRemoval == Init /\ [][NextRemoval]_vars

-----------------------------------------------------------------------------
(* Properties of the removal policy *)

\* the resource token of a key: what precedes its first ":"
ResourceToken(key) == SplitFirst(key, ":")

\* C4: with legacy matching enabled, an entry r without ":" removes a key iff
\* the lowercased key is r followed by ":" and more (or the key equals an
\* entry): with the legacy resource assets, assets:read and
\* assets:write:dataset=5 are removed and asset_mappings:read is not.
C4_LegacyPrefixIsWholeToken ==
    (op = "should_remove_capability_key" /\ arg.legacy_resources) =>
        /\ ret = \/ Lower(arg.key) \in arg.to_remove
                 \/ /\ Contains(arg.key, ":")
                    /\ ResourceToken(Lower(arg.key)) \in
                          {r \in arg.to_remove : ~Contains(r, ":")}
        /\ arg.to_remove = {"assets"} =>
              /\ arg.key \in {"assets:read", "assets:write:dataset=5"} => ret
              /\ arg.key = "asset_mappings:read" => ~ret
        /\ (arg.to_remove = {"asset", "events"} /\ arg.key = "asset_mappings:read") => ~ret

\* C4 witness: legacy resource assets removes assets:write:dataset=5
C4_Witness ==
    /\ op = "should_remove_capability_key"
    /\ arg.legacy_resources
    /\ arg.to_remove = {"assets"}
    /\ arg.key = "assets:write:dataset=5"
    /\ ret = TRUE

\* the grants of a filter call that the call dropped
Dropped == {c \in ToSet(arg.group.capabilities) : c \notin ToSet(ret)}

\* C5: with the legacy flag off only exact matches are removed: a key is
\* removed iff its lowercase equals an entry, no entry acts as a prefix, and
\* a grant whose only key is assets:read survives the removal set
\* {assets:write}.
C5_FlagOffExactOnly ==
    /\ (op = "should_remove_capability_key" /\ ~arg.legacy_resources) =>
          ret = (Lower(arg.key) \in arg.to_remove)
    /\ (op = "filter_capabilities_for_removal" /\ ~arg.legacy_resources) =>
          /\ \A c \in Dropped :
                \E k \in ToSet(RetKeysOf(c)) : Lower(k) \in arg.to_remove
          /\ arg.to_remove = {"assets:write"} =>
                \A c \in ToSet(arg.group.capabilities) :
                    RetKeysOf(c) = <<"assets:read">> => c \in ToSet(ret)

\* C5 witness: with the flag off the assets:read grant survives {assets:write}
\* and the grant that has the key assets:write is dropped
C5_Witness ==
    /\ op = "filter_capabilities_for_removal"
    /\ ~arg.legacy_resources
    /\ arg.to_remove = {"assets:write"}
    /\ Capability("AssetsAcl", <<ActRead>>, None) \in ToSet(ret)
    /\ Capability("AssetsAcl", <<ActWrite, ActRead>>, None) \in Dropped

\* is sub a subsequence of seq: the same entries in the same order, some left out
RECURSIVE IsSubsequence(_, _)
IsSubsequence(sub, seq) ==
    IF sub = <<>> THEN TRUE
    ELSE IF seq = <<>> THEN FALSE
    ELSE IF Head(sub) = Head(seq) THEN IsSubsequence(Tail(sub), Tail(seq))
    ELSE IsSubsequence(sub, Tail(seq))

\* does a key of the grant match the removal spec of the call
Matches(c) ==
    \E k \in ToSet(RetKeysOf(c)) :
        \/ Lower(k) \in arg.to_remove
        \/ /\ arg.legacy_resources
           /\ \E r \in arg.to_remove : ~Contains(r, ":") /\ StartsWith(Lower(k), r \o ":")

\* C6: filter_capabilities_for_removal returns a subsequence of the group's
\* grants in their order; a grant with no key is kept, and a grant with keys
\* is kept iff none of its keys matches, so a grant with several actions of
\* which one matches is dropped whole.
C6_FilterKeepsOrderDropsWhole ==
    (op = "filter_capabilities_for_removal") =>
        /\ IsSubsequence(ret, arg.group.capabilities)
        /\ \A c \in ToSet(arg.group.capabilities) :
              /\ extract_capability_key(c) = None => c \in ToSet(ret)
              /\ extract_capability_key(c) # None => (c \in ToSet(ret) <=> ~Matches(c))
        /\ Len(ret) = Cardinality({i \in 1..Len(arg.group.capabilities) :
                                      arg.group.capabilities[i] \in ToSet(ret)})

\* C6 witness: the grant with Write and Read is dropped whole for
\* assets:write, the grant without actions and the read grants are kept
C6_Witness ==
    /\ op = "filter_capabilities_for_removal"
    /\ arg.group.id = 10
    /\ arg.to_remove = {"assets:write"}
    /\ ret = <<Capability("TimeSeriesAcl", <<ActRead>>, None),
               Capability("AssetsAcl", <<ActRead>>, None),
               Capability("ThreeDAcl", <<>>, None)>>

\* the grant types of the platform's core resources the catalog lists
CoreResourceTypes == {"AssetsAcl", "TimeSeriesAcl", "ThreeDAcl"}

\* C7: with legacy removal enabled and the default catalog, every grant of a
\* catalogued core resource that has a key is dropped, whatever its actions
\* and scope; in particular a TimeSeriesAcl grant is dropped.
C7_DefaultCatalogDropsCoreGrants ==
    (/\ op = "filter_capabilities_for_removal"
     /\ arg.legacy_resources
     /\ arg.to_remove = capability_keys_to_remove(TRUE, None, None)) =>
        \A c \in ToSet(ret) :
            c.type_name \in CoreResourceTypes => extract_capability_key(c) = None

-----------------------------------------------------------------------------
(* utils/group_backup_restore.py: the backup archive *)

\* "%02d" % n
Pad2(n) == IF n < 10 THEN "0" \o IntToStr(n) ELSE IntToStr(n)

\* strftime("%Y-%m-%d_%H-%M-%S") of the time now seconds after 2026-01-01 00:00:00
_timestamp(now) ==
    "2026-01-" \o Pad2(1 + (now \div 86400)) \o "_" \o Pad2((now \div 3600) % 24)
    \o "-" \o Pad2((now \div 60) % 60) \o "-" \o Pad2(now % 60)

\* str[:1].lower() + str[1:] and back: the camel-case name of a grant type
LowerFirst(s) == IF s = "" THEN "" ELSE LowerChar[Chr(s, 1)] \o SubSeq(s, 2, Len(s))

UpperFirst(s) ==
    IF s = "" THEN ""
    ELSE (IF \E i \in 1..Len(LowerCase) : Chr(LowerCase, i) = Chr(s, 1)
          THEN Chr(UpperCase, CHOOSE i \in 1..Len(LowerCase) : Chr(LowerCase, i) = Chr(s, 1))
          ELSE Chr(s, 1))
         \o SubSeq(s, 2, Len(s))

\* Capability.dump(camel_case=True) of the SDK, as {aclName: {actions, scope}}:
\* the actions by their values, the scope by its name and ids
ScopeDump(scope) ==
    IF scope.type_name = "AllScope" THEN [name |-> "all", ids |-> <<>>]
    ELSE [name |-> "datasetScope", ids |-> scope.attrs["data_set_ids"].v]

CapabilityDump(c) ==
    [acl |-> LowerFirst(c.type_name),
     actions |-> [i \in 1..Len(c.actions) |-> c.actions[i].value],
     scope |-> ScopeDump(c.scope)]

\* Capability.load of the SDK: the Action member of each value, the scope class
ScopeLoad(d) == IF d.name = "all" THEN AllScope ELSE DataSetScope(d.ids)

ActionOfValue(value) == CHOOSE a \in {ActRead, ActWrite} : a.value = value

CapabilityLoad(d) ==
    Capability(UpperFirst(d.acl),
               [i \in 1..Len(d.actions) |-> ActionOfValue(d.actions[i])],
               ScopeLoad(d.scope))

\* json.dump of backup_data: an object of arrays of {id, name, capabilities}
JsonDump(backup_data) ==
    [j |-> "object",
     members |-> [c \in 1..Len(backup_data) |->
        [key |-> backup_data[c].customer,
         value |-> [j |-> "array",
                    items |-> [g \in 1..Len(backup_data[c].groups) |->
                       [j |-> "object",
                        members |-> <<[key |-> "id", value |-> [j |-> "number", n |-> backup_data[c].groups[g].id]],
                                      [key |-> "name", value |-> [j |-> "string", s |-> backup_data[c].groups[g].name]],
                                      [key |-> "capabilities",
                                       value |-> [j |-> "array", items |-> backup_data[c].groups[g].capabilities]]>>]]]]]]

\* the value of a JSON object's member
Member(object, key) ==
    (CHOOSE m \in ToSet(object.members) : m.key = key).value

\* json.load of a record file
JsonLoad(doc) ==
    [c \in 1..Len(doc.members) |->
        [customer |-> doc.members[c].key,
         groups |-> [g \in 1..Len(doc.members[c].value.items) |->
            LET gd == doc.members[c].value.items[g]
            IN  [id |-> Member(gd, "id").n,
                 name |-> Member(gd, "name").s,
                 capabilities |-> Member(gd, "capabilities").items]]]]

SheetNameMax == 31

\* the workbook write_groups_to_excel writes: one sheet per customer
Workbook(dataframes_by_customer) ==
    [kind |-> "xlsx",
     sheets |-> [i \in 1..Len(dataframes_by_customer) |->
        LET customer_name == dataframes_by_customer[i].customer
            df == dataframes_by_customer[i].df
        IN  [sheet_name |-> IF Len(customer_name) > SheetNameMax
                            THEN SubSeq(customer_name, 1, SheetNameMax)
                            ELSE customer_name,
             table |-> IF df = None
                       THEN [tag |-> "DataFrame", columns |-> <<"Error">>,
                             rows |-> <<[Error |-> "Failed to fetch groups"]>>]
                       ELSE df]]]

\* the file of that name in the directory
FileNames(dir) == {f.name : f \in dir.files}

FileContent(dir, name) == (CHOOSE f \in dir.files : f.name = name).content

\* open(path, "w") and write: the file of that name is created or replaced
WriteFile(files, name, content) ==
    {f \in files : f.name # name} \cup {[name |-> name, content |-> content]}

\* a slip: only the first grant of each group is recorded
GroupRecords_first_grant(groups) ==
    [g \in 1..Len(groups) |->
        [id |-> groups[g].id,
         name |-> groups[g].name,
         capabilities |-> IF groups[g].capabilities = <<>> THEN <<>>
                          ELSE <<CapabilityDump(groups[g].capabilities[1])>>]]

\* the rows of backup_data for one customer's groups
GroupRecords(groups) ==
    [g \in 1..Len(groups) |->
        [id |-> groups[g].id,
         name |-> groups[g].name,
         capabilities |-> [i \in 1..Len(groups[g].capabilities) |->
                              CapabilityDump(groups[g].capabilities[i])]]]

BackupData(groups_by_customer) ==
    [c \in 1..Len(groups_by_customer) |->
        [customer |-> groups_by_customer[c].customer,
         groups |-> IF groups_by_customer[c].groups = None THEN <<>>
                    ELSE GroupRecords(groups_by_customer[c].groups.v)]]

\* a slip: the record file gets a timestamp of its own, taken a second later
RecordStem_own_timestamp(ts, now) == "groups_backup_" \o _timestamp(now + 1)

\* the stem of the record file: the same ts as the export file
RecordStem(ts, now) == "groups_backup_" \o ts

\* the two writes that end backup_groups_to_archive; building a customer's
\* frame may have raised before them
WriteBackup(dir, dataframes_by_customer, backup_data, excel_path, json_path) ==
    IF \E c \in 1..Len(dataframes_by_customer) : dataframes_by_customer[c].df.tag = "raise"
    THEN [dir |-> [dir EXCEPT !.exists = TRUE],
          result |-> [tag |-> "raise", exc |-> "KeyError"]]
    ELSE [dir |-> [exists |-> TRUE,
                   files |-> WriteFile(WriteFile(dir.files, excel_path,
                                                 Workbook(dataframes_by_customer)),
                                       json_path, JsonDump(backup_data))],
          result |-> [tag |-> "ok", excel_path |-> excel_path, json_path |-> json_path]]

\* the frame of every customer, None for a customer that is None
CustomerDataframes(groups_by_customer, all_capabilities) ==
    [c \in 1..Len(groups_by_customer) |->
        [customer |-> groups_by_customer[c].customer,
         df |-> IF groups_by_customer[c].groups = None THEN None
                ELSE build_customer_dataframe(groups_by_customer[c].groups.v,
                                              all_capabilities)]]

\* backup_groups_to_archive at the time now: [dir, result], where result is
\* [tag |-> "ok", excel_path, json_path] or [tag |-> "raise", exc]
backup_groups_to_archive(groups_by_customer, dir, now) ==
    WriteBackup(dir,
                CustomerDataframes(groups_by_customer,
                                   collect_all_capabilities(groups_by_customer)),
                BackupData(groups_by_customer),
                "groups_backup_" \o _timestamp(now) \o ".xlsx",
                RecordStem(_timestamp(now), now) \o ".json")

RECURSIVE Replace(_, _, _)
\* str.replace(old, new)
Replace(s, old, new) ==
    IF Contains(s, old)
    THEN LET i == Min(Occurrences(s, old))
         IN  SubSeq(s, 1, i - 1) \o new \o Replace(SubSeq(s, i + Len(old), Len(s)), old, new)
    ELSE s

\* Path.stem and Path.with_suffix for a name with a suffix of n characters
Stem(name, n) == SubSeq(name, 1, Len(name) - n)

\* archive_path.glob("groups_backup_*.json")
GlobRecords(dir) ==
    {n \in FileNames(dir) :
        /\ Len(n) >= Len("groups_backup_") + Len(".json")
        /\ StartsWith(n, "groups_backup_")
        /\ EndsWith(n, ".json")}

RECURSIVE PairsOf(_, _)
\* the loop of list_backups over the record files in the given order
PairsOf(json_paths, dir) ==
    IF json_paths = <<>> THEN <<>>
    ELSE LET json_path == Head(json_paths)
             stem == Stem(json_path, Len(".json"))
             ts == IF StartsWith(stem, "groups_backup_")
                   THEN Replace(stem, "groups_backup_", "") ELSE ""
             excel_path == stem \o ".xlsx"
         IN  (IF excel_path \in FileNames(dir)
              THEN <<[excel_path |-> excel_path, json_path |-> json_path, ts |-> ts]>>
              ELSE <<>>)
             \o PairsOf(Tail(json_paths), dir)

\* a slip: every record file is listed, with or without its export file
list_backups_unpaired(dir) ==
    IF ~dir.exists THEN <<>>
    ELSE LET json_paths == Reverse(SortedStrs(GlobRecords(dir)))
         IN  [i \in 1..Len(json_paths) |->
                [excel_path |-> Stem(json_paths[i], Len(".json")) \o ".xlsx",
                 json_path |-> json_paths[i],
                 ts |-> Replace(Stem(json_paths[i], Len(".json")), "groups_backup_", "")]]

list_backups(dir) ==
    IF ~dir.exists THEN <<>>
    ELSE PairsOf(Reverse(SortedStrs(GlobRecords(dir))), dir)

load_backup_json(dir, json_path) == JsonLoad(FileContent(dir, json_path))

\* the grants restore_groups_from_backup reconstructs for one recorded group
LoadCapabilities(gd) ==
    [i \in 1..Len(gd.capabilities) |-> CapabilityLoad(gd.capabilities[i])]

-----------------------------------------------------------------------------
(* The backup archive: backups, listings and loads as the clock advances *)

MaxClock == 11

\* groups as the SDK returns them: Action members, AllScope or a data set scope
BackupGroups ==
    [n \in 1..3 |->
        CASE n = 1 -> Group(1, "G1", <<Capability("TimeSeriesAcl", <<ActWrite, ActRead>>, AllScope)>>)
          [] n = 2 -> Group(2, "G2", <<>>)
          [] n = 3 -> Group(3, "G3", <<Capability("AssetsAcl", <<ActRead>>, DataSetScope(<<5, 12>>)),
                                       Capability("ThreeDAcl", <<ActRead, ActRead>>, AllScope)>>)]

BackupInputs ==
    { <<[customer |-> "alpha", groups |-> OptList(<<BackupGroups[1], BackupGroups[2]>>)]>>,
      <<[customer |-> "beta", groups |-> OptList(<<BackupGroups[3], BackupGroups[1]>>)],
        [customer |-> "alpha", groups |-> None]>>,
      <<[customer |-> "alpha", groups |-> OptList(<<>>)]>> }

\* the clock advances by a second
Tick ==
    /\ op = "idle"
    /\ clock < MaxClock
    /\ clock' = clock + 1
    /\ UNCHANGED <<op, arg, ret, archive>>

BackupGroupsToArchive ==
    \E groups_by_customer \in BackupInputs :
        \E done \in {backup_groups_to_archive(groups_by_customer, archive, clock)} :
            /\ op = "idle"
            /\ op' = "backup_groups_to_archive"
            /\ arg' = groups_by_customer
            /\ ret' = done.result
            /\ archive' = done.dir
            /\ UNCHANGED clock

\* a file put into the directory by hand, as the tests do: an empty record
\* file ("{}") or an empty export file, under a name no file has yet
TouchFile ==
    \E t \in ClockStart..MaxClock, suffix \in {".json", ".xlsx"} :
        LET name == "groups_backup_" \o _timestamp(t) \o suffix
        IN  /\ op = "idle"
            /\ name \notin FileNames(archive)
            /\ archive' = [exists |-> TRUE,
                           files |-> WriteFile(archive.files, name,
                                               IF suffix = ".json" THEN JsonDump(<<>>)
                                               ELSE Workbook(<<>>))]
            /\ UNCHANGED <<op, arg, ret, clock>>

ListBackups ==
    /\ op = "idle"
    /\ op' = "list_backups"
    /\ arg' = None
    /\ ret' = list_backups(archive)
    /\ UNCHANGED <<archive, clock>>

LoadBackupJson ==
    \E json_path \in GlobRecords(archive) :
        /\ op = "idle"
        /\ op' = "load_backup_json"
        /\ arg' = json_path
        /\ ret' = load_backup_json(archive, json_path)
        /\ UNCHANGED <<archive, clock>>

NextArchive ==
    \/ Tick
    \/ BackupGroupsToArchive
    \/ TouchFile
    \/ ListBackups
    \/ LoadBackupJson
    \/ Return

SpecArchive == Init /\ [][NextArchive]_vars

-----------------------------------------------------------------------------
(* Properties of the backup archive *)

\* C8: the backup round trip is lossless: the record a successful backup
\* wrote, loaded with load_backup_json, has for every customer and group the
\* group's id and name, and the grants reconstructed from it have the same set
\* of canonical keys as the group's original grants.
C8_BackupRoundTrip ==
    (op = "backup_groups_to_archive" /\ ret.tag = "ok") =>
        LET data == load_backup_json(archive, ret.json_path)
        IN  /\ Len(data) = Len(arg)
            /\ \A c \in 1..Len(arg) :
                  /\ data[c].customer = arg[c].customer
                  /\ arg[c].groups # None =>
                        /\ Len(data[c].groups) = Len(arg[c].groups.v)
                        /\ \A g \in 1..Len(arg[c].groups.v) :
                              /\ data[c].groups[g].id = arg[c].groups.v[g].id
                              /\ data[c].groups[g].name = arg[c].groups.v[g].name
                              /\ ToSet(GroupKeys(LoadCapabilities(data[c].groups[g])))
                                    = ToSet(GroupKeys(arg[c].groups.v[g].capabilities))

\* C8 witness: a backup of two groups with scoped and multi-action grants
\* whose record reconstructs to grants with keys
C8_Witness ==
    /\ op = "backup_groups_to_archive"
    /\ ret.tag = "ok"
    /\ Len(arg) = 2
    /\ LET gd == load_backup_json(archive, ret.json_path)[1].groups[1]
       IN  ToSet(GroupKeys(LoadCapabilities(gd)))
              = {"assets:read:data_set_ids=5,12", "three_d:read"}

\* the files of a directory other than the two named
OtherFiles(dir, a, b) == {f \in dir.files : f.name \notin {a, b}}

\* C9: every successful backup writes exactly one export file and one record
\* file into the archive directory, named groups_backup_<timestamp> with the
\* one timestamp of the call and the extensions .xlsx and .json; the record
\* has one entry per input customer and per customer one {id, name,
\* capabilities} entry per group in input order.
C9_OnePairOneTimestamp ==
    [][(op' = "backup_groups_to_archive" /\ ret'.tag = "ok") =>
          LET stem == "groups_backup_" \o _timestamp(clock)
              record == FileContent(archive', ret'.json_path)
          IN  /\ ret'.excel_path = stem \o ".xlsx"
              /\ ret'.json_path = stem \o ".json"
              /\ archive'.exists
              /\ {ret'.excel_path, ret'.json_path} \subseteq FileNames(archive')
              /\ OtherFiles(archive', ret'.excel_path, ret'.json_path)
                    = OtherFiles(archive, ret'.excel_path, ret'.json_path)
              /\ FileContent(archive', ret'.excel_path).kind = "xlsx"
              /\ Len(record.members) = Len(arg')
              /\ \A c \in 1..Len(arg') :
                    /\ record.members[c].key = arg'[c].customer
                    /\ LET entries == record.members[c].value.items
                           groups == IF arg'[c].groups = None THEN <<>> ELSE arg'[c].groups.v
                       IN  /\ Len(entries) = Len(groups)
                           /\ \A g \in 1..Len(groups) :
                                 /\ Member(entries[g], "id").n = groups[g].id
                                 /\ Member(entries[g], "name").s = groups[g].name
                                 /\ Len(Member(entries[g], "capabilities").items)
                                       = Len(groups[g].capabilities)]_vars

\* C9 witness: a successful backup of two customers into a directory that
\* already holds an earlier backup
C9_Witness ==
    /\ op = "backup_groups_to_archive"
    /\ ret.tag = "ok"
    /\ Len(arg) = 2
    /\ {ret.excel_path, ret.json_path} \subseteq FileNames(archive)
    /\ Cardinality(archive.files) = 4

\* the time a timestamp of the archive stands for
TimeOf(ts) == CHOOSE t \in 0..MaxClock : _timestamp(t) = ts

\* C10: list_backups returns exactly the complete pairs: a timestamp is listed
\* iff both groups_backup_<ts>.json and groups_backup_<ts>.xlsx exist, so a
\* record file without export file and an export file without record file are
\* left out; the result is newest first, and a missing or empty directory
\* gives the empty list.
C10_ListBackupsCompletePairs ==
    (op = "list_backups") =>
        /\ \A t \in 0..MaxClock :
              LET stem == "groups_backup_" \o _timestamp(t)
              IN  (\E i \in 1..Len(ret) : ret[i].ts = _timestamp(t))
                     <=> {stem \o ".json", stem \o ".xlsx"} \subseteq FileNames(archive)
        /\ \A i \in 1..Len(ret) :
              /\ ret[i].ts \in {_timestamp(t) : t \in 0..MaxClock}
              /\ ret[i].json_path = "groups_backup_" \o ret[i].ts \o ".json"
              /\ ret[i].excel_path = "groups_backup_" \o ret[i].ts \o ".xlsx"
        /\ \A i, j \in 1..Len(ret) :
              i < j => /\ StrLess(ret[j].ts, ret[i].ts)
                       /\ TimeOf(ret[j].ts) < TimeOf(ret[i].ts)
        /\ (~archive.exists \/ archive.files = {}) => ret = <<>>

\* C10 witness: two complete pairs listed newest first, beside a record file
\* without export file and an export file without record file
C10_Witness ==
    /\ op = "list_backups"
    /\ Len(ret) = 2
    /\ TimeOf(ret[1].ts) > TimeOf(ret[2].ts)
    /\ \E n \in FileNames(archive) :
          EndsWith(n, ".json") /\ Stem(n, 5) \o ".xlsx" \notin FileNames(archive)
    /\ \E n \in FileNames(archive) :
          EndsWith(n, ".xlsx") /\ Stem(n, 5) \o ".json" \notin FileNames(archive)

\* the files a backup call wrote: a record with customers or a workbook with
\* sheets (a file put there by hand is empty)
BackupWritten(dir) ==
    {f \in dir.files :
        \/ EndsWith(f.name, ".json") /\ f.content.members # <<>>
        \/ EndsWith(f.name, ".xlsx") /\ f.content.sheets # <<>>}

\* C11: the archive is append-only: whatever calls follow, the record file and
\* the export file an earlier backup wrote still exist with the content they
\* were written with.
C11_ArchiveAppendOnly ==
    [][BackupWritten(archive) \subseteq archive'.files]_vars

-----------------------------------------------------------------------------
(* utils/group_backup_restore.py: restore_groups_from_backup, and
   update_group_capabilities of utils/remove_capabilities.py.
   The client is [groups, rejects, posts]: the grants the platform holds per
   group id, the ids whose update the API rejects, and the update requests
   posted so far. *)

\* a recorded entry that is no grant object (a string, say), which
\* Capability.load cannot read; the empty acl name marks it
NotAnObject == [acl |-> "", actions |-> <<>>, scope |-> [name |-> "", ids |-> <<>>]]

\* Capability.load(c, allow_unknown=True) returns rather than raises
Loads(c) == c.acl # ""

\* update_group_capabilities: post {id, update: {capabilities: {set: dumps}}},
\* then raise_for_status; [client, result]
update_group_capabilities(client, group, new_capabilities) ==
    LET set == [i \in 1..Len(new_capabilities) |-> CapabilityDump(new_capabilities[i])]
        posted == [client EXCEPT !.posts = Append(@, [id |-> group.id, set |-> set])]
    IN  IF group.id \in client.rejects
        THEN [client |-> posted, result |-> [tag |-> "raise", exc |-> "HTTPError"]]
        ELSE [client |-> [posted EXCEPT !.groups[group.id] = set],
              result |-> [tag |-> "ok"]]

\* a slip: the dry_run flag is not looked at
RestoreGroup_ignores_dry_run(st, gd, dry_run) ==
    IF \E i \in 1..Len(gd.capabilities) : ~Loads(gd.capabilities[i])
    THEN [st EXCEPT !.out = Append(@, [line |-> "Skip", id |-> gd.id, n |-> 0])]
    ELSE LET caps == LoadCapabilities(gd)
             done == update_group_capabilities(st.client, [id |-> gd.id], caps)
         IN  [client |-> done.client,
              out |-> Append(st.out, [line |-> IF done.result.tag = "ok"
                                               THEN "Restored" ELSE "Error",
                                      id |-> gd.id, n |-> Len(caps)])]

\* the body of the loop for one recorded group gd, from [client, out], where
\* out is the lines printed so far
RestoreGroup(st, gd, dry_run) ==
    IF \E i \in 1..Len(gd.capabilities) : ~Loads(gd.capabilities[i])
    THEN [st EXCEPT !.out = Append(@, [line |-> "Skip", id |-> gd.id, n |-> 0])]
    ELSE LET caps == LoadCapabilities(gd)
         IN  IF dry_run
             THEN [st EXCEPT !.out = Append(@, [line |-> "Would restore", id |-> gd.id,
                                                n |-> Len(caps)])]
             ELSE LET done == update_group_capabilities(st.client, [id |-> gd.id], caps)
                  IN  [client |-> done.client,
                       out |-> Append(st.out, [line |-> IF done.result.tag = "ok"
                                                        THEN "Restored" ELSE "Error",
                                               id |-> gd.id, n |-> Len(caps)])]

RECURSIVE Records(_)
\* the recorded groups in the order the two loops visit them
Records(backup_data) ==
    IF backup_data = <<>> THEN <<>>
    ELSE Head(backup_data).groups \o Records(Tail(backup_data))

RECURSIVE RestoreLoop(_, _, _)
RestoreLoop(st, gds, dry_run) ==
    IF gds = <<>> THEN st
    ELSE RestoreLoop(RestoreGroup(st, Head(gds), dry_run), Tail(gds), dry_run)

\* the loop left at the first line that is not a success
RestoreUntilFailure(st, gds, dry_run) ==
    LET all == RestoreLoop(st, gds, dry_run)
        bad == {i \in 1..Len(all.out) : all.out[i].line \in {"Skip", "Error"}}
    IN  IF bad = {} THEN all ELSE RestoreLoop(st, SubSeq(gds, 1, Min(bad)), dry_run)

\* a slip: the first group that fails ends the batch
restore_groups_from_backup_aborts(client, backup_data, dry_run) ==
    RestoreUntilFailure([client |-> client, out |-> <<>>], Records(backup_data), dry_run)

\* restore_groups_from_backup: [client, out] when it returns
restore_groups_from_backup(client, backup_data, dry_run) ==
    RestoreLoop([client |-> client, out |-> <<>>], Records(backup_data), dry_run)

-----------------------------------------------------------------------------
(* Restores: every record of up to two customers, dry or live, against a
   platform that rejects the updates of some groups *)

\* the recorded groups: those of BackupGroups as a backup records them, and
\* one whose second grant is no grant object
RecordPool ==
    {GroupRecords(<<BackupGroups[n]>>)[1] : n \in 1..3}
    \cup {[id |-> 4, name |-> "G4",
           capabilities |-> <<CapabilityDump(Capability("AssetsAcl", <<ActRead>>, AllScope)),
                              NotAnObject>>]}

\* backup_data as load_backup_json returns it
RestoreInputs ==
    LET lists == Seqs(RecordPool, MaxGroups)
    IN  {<<[customer |-> "alpha", groups |-> a]>> : a \in lists}
        \cup {<<[customer |-> "alpha", groups |-> a], [customer |-> "beta", groups |-> b]>> :
                a \in lists, b \in lists}

\* the platform before the restore: every group holds one grant
Client(rejects) ==
    [groups |-> [id \in 1..4 |->
                    <<CapabilityDump(Capability("AssetsAcl", <<ActWrite>>, AllScope))>>],
     rejects |-> rejects,
     posts |-> <<>>]

RestoreGroupsFromBackup ==
    \E backup_data \in RestoreInputs, dry_run \in BOOLEAN, rejects \in SUBSET {1, 3} :
        /\ op = "idle"
        /\ op' = "restore_groups_from_backup"
        /\ arg' = [client |-> Client(rejects), backup_data |-> backup_data,
                   dry_run |-> dry_run]
        /\ ret' = restore_groups_from_backup(Client(rejects), backup_data, dry_run)
        /\ UNCHANGED <<archive, clock>>

NextRestore ==
    \/ RestoreGroupsFromBackup
    \/ Return

SpecRestore == Init /\ [][NextRestore]_vars

-----------------------------------------------------------------------------
(* Properties of the restore *)

\* every grant of the recorded group loads
Reconstructs(gd) == \A i \in 1..Len(gd.capabilities) : Loads(gd.capabilities[i])

\* C12: in dry-run mode the apply step is invoked for no group of any
\* customer and the platform is as before; for each recorded group whose
\* grants reconstruct, in record order, the call only reports the number of
\* grants that would be applied.
C12_DryRunAppliesNothing ==
    (op = "restore_groups_from_backup" /\ arg.dry_run) =>
        LET gds == Records(arg.backup_data)
            would == SelectSeq(ret.out, LAMBDA l : l.line = "Would restore")
            good == SelectSeq(gds, Reconstructs)
        IN  /\ ret.client.posts = <<>>
            /\ ret.client.groups = arg.client.groups
            /\ \A i \in 1..Len(ret.out) : ret.out[i].line \in {"Would restore", "Skip"}
            /\ Len(would) = Len(good)
            /\ \A i \in 1..Len(good) :
                  would[i].id = good[i].id /\ would[i].n = Len(good[i].capabilities)

\* C12 witness: a dry run over two customers, with groups that reconstruct
\* and one that does not, against a platform that would reject an update
C12_Witness ==
    /\ op = "restore_groups_from_backup"
    /\ arg.dry_run
    /\ Len(arg.backup_data) = 2
    /\ arg.client.rejects # {}
    /\ \E i \in 1..Len(ret.out) : ret.out[i].line = "Would restore" /\ ret.out[i].n = 2
    /\ \E i \in 1..Len(ret.out) : ret.out[i].line = "Skip"

\* C13: in live mode the restore is a best-effort batch: customers and groups
\* are processed in record order, the apply step is invoked exactly once for
\* every recorded group whose grants reconstruct and never for one whose
\* reconstruction fails, a reconstruction failure or an apply failure of one
\* group prevents no later group from being processed, and the call completes
\* whatever subset of groups fails.
C13_LiveBestEffortBatch ==
    (op = "restore_groups_from_backup" /\ ~arg.dry_run) =>
        LET gds == Records(arg.backup_data)
            good == SelectSeq(gds, Reconstructs)
            posts == ret.client.posts
        IN  /\ Len(ret.out) = Len(gds)
            /\ \A i \in 1..Len(gds) :
                  /\ ret.out[i].id = gds[i].id
                  /\ ret.out[i].line =
                        IF ~Reconstructs(gds[i]) THEN "Skip"
                        ELSE IF gds[i].id \in arg.client.rejects THEN "Error"
                        ELSE "Restored"
            /\ Len(posts) = Len(good)
            /\ \A i \in 1..Len(good) :
                  /\ posts[i].id = good[i].id
                  /\ posts[i].set = good[i].capabilities
            /\ \A id \in DOMAIN arg.client.groups :
                  LET applied == {i \in 1..Len(good) :
                                     good[i].id = id /\ id \notin arg.client.rejects}
                  IN  ret.client.groups[id] =
                         IF applied = {} THEN arg.client.groups[id]
                         ELSE good[CHOOSE i \in applied : \A k \in applied : k <= i].capabilities

\* C13 witness: a live restore in which a group that does not reconstruct and
\* a group the platform rejects are both followed by a group that is restored
C13_Witness ==
    /\ op = "restore_groups_from_backup"
    /\ ~arg.dry_run
    /\ Len(arg.backup_data) = 2
    /\ \E i, j, k \in 1..Len(ret.out) :
          /\ i < j /\ j < k
          /\ ret.out[i].line = "Skip"
          /\ ret.out[j].line = "Error"
          /\ ret.out[k].line = "Restored"
          /\ ret.client.groups[ret.out[k].id] # arg.client.groups[ret.out[k].id]

-----------------------------------------------------------------------------
(* utils/cognite_auth.py: the clients. env gives, for every configured
   customer, what its tenant does: whether the device-code flow and the
   interactive flow succeed, whether the profile request succeeds, and the
   groups the listing returns (None when the listing request fails). *)

\* the customers of cognite_auth_config.json
CUSTOMER_CONFIGS == {"alpha", "beta"}

Raise(type, msg, raised_by) ==
    [tag |-> "raise", exc |-> [type |-> type, msg |-> msg, raised_by |-> raised_by]]

\* _get_config_and_cache called by the given strategy
_get_config_and_cache(customer, strategy) ==
    IF customer \notin CUSTOMER_CONFIGS
    THEN Raise("ValueError", "Customer '" \o customer \o "' not found", strategy)
    ELSE [tag |-> "ok", config |-> customer]

device_code_client(customer, env) ==
    LET found == _get_config_and_cache(customer, "device_code_client")
    IN  IF found.tag = "raise" THEN found
        ELSE IF env[customer].device
             THEN [tag |-> "ok", client |-> [customer |-> customer, flow |-> "device_code"]]
             ELSE Raise("RuntimeError", "device failed", "device_code_client")

interactive_client(customer, env) ==
    LET found == _get_config_and_cache(customer, "interactive_client")
    IN  IF found.tag = "raise" THEN found
        ELSE IF env[customer].interactive
             THEN [tag |-> "ok", client |-> [customer |-> customer, flow |-> "interactive"]]
             ELSE Raise("ValueError", "interactive failed", "interactive_client")

\* a slip: the failure of the first strategy is the one kept
FallbackLoop_first_error(customer, env, strategies, last_exc, calls) ==
    LET d == device_code_client(customer, env)
        i == interactive_client(customer, env)
    IN  IF d.tag = "ok" THEN [result |-> d, calls |-> <<"device_code_client">>]
        ELSE IF i.tag = "ok"
             THEN [result |-> i, calls |-> <<"device_code_client", "interactive_client">>]
             ELSE [result |-> d, calls |-> <<"device_code_client", "interactive_client">>]

RECURSIVE FallbackLoop(_, _, _, _, _)
\* the try of one turn of the loop: return the client, or keep the exception
\* as last_exc and continue with the strategies left
FallbackTry(attempt, customer, env, strategies, called) ==
    IF attempt.tag = "ok" THEN [result |-> attempt, calls |-> called]
    ELSE FallbackLoop(customer, env, strategies, attempt.exc, called)

\* the loop of client_with_fallback over the strategies left, and the raise
\* after it; calls are the strategies called so far
FallbackLoop(customer, env, strategies, last_exc, calls) ==
    IF strategies = <<>>
    THEN [result |-> IF last_exc # None THEN [tag |-> "raise", exc |-> last_exc]
                     ELSE Raise("RuntimeError", "Authentication failed", "client_with_fallback"),
          calls |-> calls]
    ELSE IF Head(strategies)
         THEN FallbackTry(device_code_client(customer, env), customer, env,
                          Tail(strategies), Append(calls, "device_code_client"))
         ELSE FallbackTry(interactive_client(customer, env), customer, env,
                          Tail(strategies), Append(calls, "interactive_client"))

\* client_with_fallback: [result, calls], result the client or the raise
client_with_fallback(customer, env) ==
    FallbackLoop(customer, env, <<TRUE, FALSE>>, None, <<>>)

-----------------------------------------------------------------------------
(* utils/cognite_groups_export.py: export_groups *)

\* d[customer] = df of a dict kept as the sequence of its items: the item of
\* that key is replaced where it stands, a new key is added at the end
SetItem(d, customer, df) ==
    IF \E i \in 1..Len(d) : d[i].customer = customer
    THEN [i \in 1..Len(d) |-> IF d[i].customer = customer
                              THEN [customer |-> customer, df |-> df] ELSE d[i]]
    ELSE Append(d, [customer |-> customer, df |-> df])

\* the except branch of the fetch loop: the customer is recorded as None
FetchFailed(st, customer_name) ==
    [st EXCEPT !.groups_by_customer = Append(@, [customer |-> customer_name, groups |-> None]),
               !.dataframes_by_customer = SetItem(@, customer_name, None)]

RECURSIVE FetchLoop(_, _, _, _)
\* the body of the fetch loop for customer_name once client_with_fallback has
\* given auth; called is the state with that call noted
FetchCustomer(called, auth, customer_list, show_profile, env) ==
    IF auth.result.tag = "raise"
    THEN FetchLoop(FetchFailed(called, Head(customer_list)),
                   Tail(customer_list), show_profile, env)
    ELSE IF show_profile /\ ~env[Head(customer_list)].profile
    THEN [tag |-> "raise", st |-> called,
          exc |-> [type |-> "CogniteAPIError", msg |-> "user_profiles.me",
                   raised_by |-> "export_groups"]]
    ELSE IF env[Head(customer_list)].groups = None
    THEN [tag |-> "raise", st |-> called,
          exc |-> [type |-> "CogniteAPIError", msg |-> "groups.list",
                   raised_by |-> "export_groups"]]
    ELSE FetchLoop([called EXCEPT !.groups_by_customer =
                       Append(@, [customer |-> Head(customer_list),
                                  groups |-> env[Head(customer_list)].groups])],
                   Tail(customer_list), show_profile, env)

\* the call of client_with_fallback noted in the state
NoteCall(st, customer_name, auth) ==
    [st EXCEPT !.calls = Append(@, [customer |-> customer_name, calls |-> auth.calls])]

\* one turn of the fetch loop with the outcome of client_with_fallback
FetchTurn(st, auth, customer_list, show_profile, env) ==
    FetchCustomer(NoteCall(st, Head(customer_list), auth), auth, customer_list,
                  show_profile, env)

\* the fetch loop of export_groups from st = [groups_by_customer,
\* dataframes_by_customer, calls]: the state after it as [tag |-> "ok", st],
\* or the exception that left it
FetchLoop(st, customer_list, show_profile, env) ==
    IF customer_list = <<>> THEN [tag |-> "ok", st |-> st]
    ELSE FetchTurn(st, client_with_fallback(Head(customer_list), env), customer_list,
                   show_profile, env)

RECURSIVE FrameLoop(_, _, _)
\* the second loop: the frame of every customer in groups_by_customer
FrameLoop(dataframes_by_customer, groups_by_customer, all_capabilities) ==
    IF groups_by_customer = <<>> THEN dataframes_by_customer
    ELSE FrameLoop(SetItem(dataframes_by_customer, Head(groups_by_customer).customer,
                           IF Head(groups_by_customer).groups = None THEN None
                           ELSE build_customer_dataframe(Head(groups_by_customer).groups.v,
                                                         all_capabilities)),
                   Tail(groups_by_customer), all_capabilities)

\* the end of export_groups: the workbook of the frames, unless building a
\* frame raised
WriteExport(st, dataframes_by_customer) ==
    IF \E i \in 1..Len(dataframes_by_customer) : dataframes_by_customer[i].df.tag = "raise"
    THEN [tag |-> "raise", st |-> st,
          exc |-> [type |-> "KeyError", msg |-> "columns",
                   raised_by |-> "build_customer_dataframe"]]
    ELSE [tag |-> "ok", st |-> st,
          dataframes_by_customer |-> dataframes_by_customer,
          output |-> Workbook(dataframes_by_customer)]

\* export_groups after the fetch loop
ExportFetched(fetched) ==
    IF fetched.tag = "raise" THEN fetched
    ELSE WriteExport(fetched.st,
                     FrameLoop(fetched.st.dataframes_by_customer,
                               fetched.st.groups_by_customer,
                               collect_all_capabilities(fetched.st.groups_by_customer)))

\* the mappings before the fetch loop
NoneFetched == [groups_by_customer |-> <<>>, dataframes_by_customer |-> <<>>, calls |-> <<>>]

\* export_groups once customer_list is made
ExportList(customer_list, show_profile, env) ==
    IF customer_list = <<>>
    THEN [tag |-> "raise", st |-> NoneFetched,
          exc |-> [type |-> "ValueError", msg |-> "No customers specified.",
                   raised_by |-> "export_groups"]]
    ELSE ExportFetched(FetchLoop(NoneFetched, customer_list, show_profile, env))

\* export_groups(customers, show_profile=...): customers is None, a name or a
\* list of names
export_groups(customers, show_profile, env) ==
    ExportList(IF customers = None THEN SortedStrs(CUSTOMER_CONFIGS)
               ELSE IF customers.tag = "str" THEN <<customers.v>>
               ELSE customers.v,
               show_profile, env)

-----------------------------------------------------------------------------
(* Exports and clients: every choice of customers against every behaviour of
   the two configured customers' tenants *)

Tenant(device, interactive, profile, groups) ==
    [device |-> device, interactive |-> interactive, profile |-> profile,
     groups |-> groups]

TenantPool ==
    {Tenant(TRUE, TRUE, TRUE, OptList(<<BackupGroups[1], BackupGroups[2]>>)),
     Tenant(FALSE, TRUE, TRUE, OptList(<<BackupGroups[3]>>)),
     Tenant(FALSE, FALSE, TRUE, OptList(<<BackupGroups[1]>>)),
     Tenant(TRUE, FALSE, TRUE, None),
     Tenant(TRUE, TRUE, FALSE, OptList(<<BackupGroups[2]>>)),
     Tenant(TRUE, TRUE, TRUE, OptList(<<>>))}

Envs == [CUSTOMER_CONFIGS -> TenantPool]

\* the names a caller passes: the configured ones and one that is not
CallerNames == CUSTOMER_CONFIGS \cup {"gamma"}

\* the customers argument: None, one name, or a list of distinct names
CustomersInputs ==
    {None}
    \cup {[tag |-> "str", v |-> c] : c \in CallerNames}
    \cup {OptList(l) : l \in {l \in Seqs(CallerNames, 2) : Len(l) = 2 => l[1] # l[2]}}

ClientWithFallback ==
    \E customer \in CallerNames, env \in Envs :
        /\ op = "idle"
        /\ op' = "client_with_fallback"
        /\ arg' = [customer |-> customer, env |-> env]
        /\ \E done \in {client_with_fallback(customer, env)} : ret' = done
        /\ UNCHANGED <<archive, clock>>

ExportGroups ==
    \E customers \in CustomersInputs, show_profile \in BOOLEAN, env \in Envs :
        /\ op = "idle"
        /\ op' = "export_groups"
        /\ arg' = [customers |-> customers, show_profile |-> show_profile, env |-> env]
        /\ \E done \in {export_groups(customers, show_profile, env)} : ret' = done
        /\ UNCHANGED <<archive, clock>>

NextExport ==
    \/ ClientWithFallback
    \/ ExportGroups
    \/ Return

SpecExport == Init /\ [][NextExport]_vars

-----------------------------------------------------------------------------
(* Properties of the clients and the export *)

\* C14: client_with_fallback attempts device-code authentication first and
\* interactive authentication only after device-code has failed; it returns
\* the client of the first strategy that succeeds without attempting the
\* later one; when both fail it raises the exception the interactive attempt
\* raised, never None or a placeholder.
C14_FallbackOrderLastError ==
    (op = "client_with_fallback") =>
        LET known == arg.customer \in CUSTOMER_CONFIGS
            device == known /\ arg.env[arg.customer].device
            interactive == known /\ arg.env[arg.customer].interactive
        IN  /\ ret.calls = IF device THEN <<"device_code_client">>
                           ELSE <<"device_code_client", "interactive_client">>
            /\ device => /\ ret.result.tag = "ok"
                         /\ ret.result.client.flow = "device_code"
            /\ (~device /\ interactive) => /\ ret.result.tag = "ok"
                                           /\ ret.result.client.flow = "interactive"
            /\ (~device /\ ~interactive) =>
                  /\ ret.result.tag = "raise"
                  /\ ret.result.exc # None
                  /\ ret.result.exc.raised_by = "interactive_client"
                  /\ ret.result.exc = interactive_client(arg.customer, arg.env).exc
                  /\ ret.result.exc.msg # "Authentication failed"

\* C14 witness: both strategies of a configured customer fail with different
\* exceptions and the one of the interactive attempt is raised
C14_Witness ==
    /\ op = "client_with_fallback"
    /\ arg.customer \in CUSTOMER_CONFIGS
    /\ ret.calls = <<"device_code_client", "interactive_client">>
    /\ ret.result.tag = "raise"
    /\ ret.result.exc.msg = "interactive failed"
    /\ device_code_client(arg.customer, arg.env).exc.msg = "device failed"

\* the customers of the call in the order they are fetched
CustomerList(customers) ==
    IF customers = None THEN SortedStrs(CUSTOMER_CONFIGS)
    ELSE IF customers.tag = "str" THEN <<customers.v>> ELSE customers.v

\* the fetch of a configured customer fails: no strategy gives a client, or
\* the listing request fails
FetchFails(customer, env) ==
    \/ ~env[customer].device /\ ~env[customer].interactive
    \/ env[customer].groups = None

\* the item of that customer in a mapping
ItemOf(d, customer) == CHOOSE item \in ToSet(d) : item.customer = customer

\* C15: a per-customer fetch failure is not fatal to export_groups: every
\* customer whose fetch fails, by authentication or by the listing request,
\* is recorded as None, the other customers are still fetched, the None
\* customer adds no key to the universe, its sheet is the one-row error
\* marker, and export_groups returns. (Calls over configured customers whose
\* profile requests succeed and whose listings are not empty.)
C15_FetchFailureNotFatal ==
    (/\ op = "export_groups"
     /\ CustomerList(arg.customers) # <<>>
     /\ \A c \in ToSet(CustomerList(arg.customers)) :
           /\ c \in CUSTOMER_CONFIGS
           /\ arg.show_profile => arg.env[c].profile
           /\ arg.env[c].groups # OptList(<<>>)) =>
        LET customer_list == CustomerList(arg.customers)
            fetched == {c \in ToSet(customer_list) : ~FetchFails(c, arg.env)}
        IN  /\ ret.tag = "ok"
            /\ [i \in 1..Len(ret.st.groups_by_customer) |->
                   ret.st.groups_by_customer[i].customer] = customer_list
            /\ \A c \in ToSet(customer_list) :
                  LET sheet == CHOOSE sh \in ToSet(ret.output.sheets) : sh.sheet_name = c
                  IN  IF c \in fetched
                      THEN /\ ItemOf(ret.st.groups_by_customer, c).groups = arg.env[c].groups
                           /\ sheet.table = ItemOf(ret.dataframes_by_customer, c).df
                           /\ Len(sheet.table.rows) = Len(arg.env[c].groups.v)
                      ELSE /\ ItemOf(ret.st.groups_by_customer, c).groups = None
                           /\ ItemOf(ret.dataframes_by_customer, c).df = None
                           /\ sheet.table.columns = <<"Error">>
                           /\ Len(sheet.table.rows) = 1
            /\ \A c \in fetched :
                  ToSet(ItemOf(ret.dataframes_by_customer, c).df.columns) \ {"Group Name", "Group ID", "Source ID"}
                     = UNION {ToSet(GroupsKeys(arg.env[d].groups.v)) : d \in fetched}

\* C16: an unknown customer name is a fatal configuration failure: the lookup
\* error is raised at the first lookup, no further strategy is attempted for
\* that customer after the lookup has failed, and an export given an unknown
\* name aborts with that error instead of recording the customer as a failed
\* fetch and continuing. (Exports whose other customers are all fetched.)
C16_UnknownCustomerFatal ==
    /\ (op = "client_with_fallback" /\ arg.customer \notin CUSTOMER_CONFIGS) =>
          /\ ret.calls = <<"device_code_client">>
          /\ ret.result.tag = "raise"
          /\ ret.result.exc.type = "ValueError"
          /\ ret.result.exc.raised_by = "device_code_client"
    /\ (/\ op = "export_groups"
        /\ \E c \in ToSet(CustomerList(arg.customers)) : c \notin CUSTOMER_CONFIGS
        /\ \A c \in ToSet(CustomerList(arg.customers)) \cap CUSTOMER_CONFIGS :
              /\ ~FetchFails(c, arg.env)
              /\ arg.show_profile => arg.env[c].profile
              /\ arg.env[c].groups # OptList(<<>>)) =>
          /\ ret.tag = "raise"
          /\ ret.exc.type = "ValueError"
          /\ \A i \in 1..Len(ret.st.groups_by_customer) :
                ret.st.groups_by_customer[i].customer \in CUSTOMER_CONFIGS

-----------------------------------------------------------------------------
(* Further properties of the removal policy and the canonicalizer *)

\* the explicit keys of a specific_keys argument, trimmed, without the empty
ExplicitKeys(specific_keys) ==
    IF specific_keys = None THEN {}
    ELSE {Strip(k) : k \in ToSet(specific_keys.v)} \ {""}

\* C17: matching a key against the removal set lowercases both sides: for
\* every explicit key E passed to capability_keys_to_remove and every key K,
\* should_remove_capability_key(K, removal set) is true whenever K and E are
\* equal after lowercasing both, whatever the letter case of E.
C17_MatchLowercasesBothSides ==
    (op = "should_remove_capability_key") =>
        \A specific_keys \in SpecificKeyInputs, legacy_list \in LegacyListInputs,
           built_legacy \in BOOLEAN :
            arg.to_remove = capability_keys_to_remove(built_legacy, specific_keys, legacy_list)
               => \A E \in ExplicitKeys(specific_keys) :
                     Lower(arg.key) = Lower(E) => ret = TRUE

\* the suffix the identifying fields of a scope give: "<field>=<value>" for
\* every recognized field that is present and not empty, joined with ":"
FieldsSuffix(scope) ==
    LET present == SelectSeq(ScopeAttrs, LAMBDA a :
                       /\ scope.attrs[a].kind # "absent"
                       /\ Truthy(scope.attrs[a]))
    IN  Join([i \in 1..Len(present) |->
                LET value == scope.attrs[present[i]]
                IN  present[i] \o "=" \o
                    (CASE value.kind = "int" -> IntToStr(value.v)
                       [] value.kind = "str" -> value.v
                       [] value.kind = "list" ->
                            Join([k \in 1..Len(value.v) |-> IntToStr(value.v[k])], ",")) ],
             ":")

\* C18: a grant's scope adds no scope suffix to its keys only when it is
\* None, of the all-scope type, or has an `all` attribute that is truthy; for
\* any other scope, also one whose `all` is present but falsy, the recognized
\* identifying fields that are present and not empty give "<field>=<value>"
\* parts (list values comma-joined), joined with ":" and appended to every key
\* as ":<scope-string>".
C18_ScopeSuffix ==
    (op = "extract_capability_key" /\ ret # None) =>
        LET scope == arg.scope
            resource == ExpectedResource[arg.type_name]
            keys == RetKeys(ret)
            unrestricted == IF scope = None THEN TRUE
                            ELSE \/ scope.type_name = "AllScope"
                                 \/ scope.has_all /\ scope.all
        IN  \A i \in 1..Len(keys) :
               LET bare == resource \o ":" \o KeyAction(resource, keys[i])
               IN  IF unrestricted THEN keys[i] = bare
                   ELSE /\ keys[i] # bare
                        /\ FieldsSuffix(scope) # "" =>
                              keys[i] = bare \o ":" \o FieldsSuffix(scope)

\* C19: the default catalog is used only when no override is supplied: with
\* legacy matching enabled and an override list of any length, also empty,
\* the set is exactly the trimmed non-empty explicit keys and the lowercased
\* trimmed names of the override list; with legacy matching disabled it is
\* exactly the trimmed non-empty explicit keys.
C19_OverrideReplacesDefault ==
    (op = "capability_keys_to_remove") =>
        /\ (arg.legacy_resources /\ arg.legacy_list # None) =>
              ret = ExplicitKeys(arg.specific_keys)
                       \cup {Strip(Lower(n)) : n \in ToSet(arg.legacy_list.v)}
        /\ ~arg.legacy_resources => ret = ExplicitKeys(arg.specific_keys)

=============================================================================
